---------------------------- MODULE Spec2Model ----------------------------
(***************************************************************************)
(* Kettlebell anaerobic-threshold analysis: the threshold detector        *)
(* (api/services/ant_calculator.py) and the rep segmentation engine with  *)
(* its streaming wrapper (api/services/rep_detector.py).                  *)
(*                                                                         *)
(* Numbers.  The code computes in binary floating point; the model        *)
(* computes the same expressions exactly.  A speed or a mean is a         *)
(* rational [num, den] with den > 0, compared by cross-multiplication.    *)
(* drop_threshold is held in percent (20 stands for 0.20).  Rounding of   *)
(* the floating-point operations is not modelled.                         *)
(*                                                                         *)
(* Python's None is the empty sequence <<>>, a present value v is <<v>>.  *)
(* Sequences are 1-based here; every index the code reports               *)
(* (ant_rep_index, start_idx, end_idx, peak positions) keeps the code's   *)
(* 0-based value.                                                          *)
(***************************************************************************)
EXTENDS Integers, Sequences, FiniteSets, TLC

VARIABLES
    status,        \* StreamingANTCalculator: "new", "ready" or "config_error"
    cfg,           \* the configuration handed to __init__
    reps,          \* StreamingANTCalculator.reps, the rep log
    last_result,   \* StreamingANTCalculator._last_result
    ret,           \* what the last call returned
    det,           \* StreamingRepDetector: "new" or "ready"
    movement_type, \* StreamingRepDetector.movement_type
    buffer_seconds,\* StreamingRepDetector.buffer_seconds, in ticks
    samples,       \* StreamingRepDetector.samples, the buffer
    detected_reps, \* StreamingRepDetector.detected_reps, the cumulative log
    last_processed_idx, \* StreamingRepDetector._last_processed_idx
    new_reps,      \* what the last add_sample call returned
    stream,        \* history: the samples added since the last reset
    rd_config,     \* RepDetector: movement_type and min_confidence of the instance
    rd_samples,    \* the sample list handed to detect_reps
    rd_returned,   \* what detect_reps returned, None before the call
    pose,          \* the FramePose handed to VideoProcessor._pose_to_sample
    pose_movement, \* the movement type _extract_positions works for
    pose_called,   \* whether _pose_to_sample has returned
    pose_sample,   \* what _pose_to_sample returned: None or a sample
    vp_movement,   \* VideoProcessor.analyze: the movement_type argument
    vp_frames,     \* the landmarks found in each frame of the video
    vp_locals,     \* samples, detected_reps and ant_result inside analyze
    vp_result      \* what analyze returned, None before the call

antVars == <<status, cfg, reps, last_result, ret>>
detVars == <<det, movement_type, buffer_seconds, samples, detected_reps,
             last_processed_idx, new_reps, stream>>
rdVars == <<rd_config, rd_samples, rd_returned>>
poseVars == <<pose, pose_movement, pose_called, pose_sample>>
vpVars == <<vp_movement, vp_frames, vp_locals, vp_result>>
callVars == <<rdVars, poseVars, vpVars>>
vars == <<antVars, detVars, callVars>>

-----------------------------------------------------------------------------
(* Bounds of the model *)

MaxReps == 6        \* longest rep log fed to the threshold detector
MaxSamples == 11    \* add_sample calls between two resets of the rep detector
MaxStalled == 15    \* add_sample calls between two resets on a stalled clock
MaxCycles == 9      \* motion cycles in an analysed video
MaxBatchSamples == 15   \* longest sample list handed to detect_reps
MaxGapped == 6      \* samples of a stream with an irregular clock
MaxTimestamp == 2    \* last frame, in ticks, a pose is converted of

-----------------------------------------------------------------------------
(* Optional values and exact rational arithmetic *)

None == <<>>
Some(v) == <<v>>
IsNone(o) == o = <<>>
Get(o) == o[1]

Rat(n, d) == [num |-> n, den |-> d]
RatInt(n) == Rat(n, 1)
RatLess(a, b) == a.num * b.den < b.num * a.den
RatLeq(a, b) == a.num * b.den <= b.num * a.den
RatSub(a, b) == Rat(a.num * b.den - b.num * a.den, a.den * b.den)
RatMul(a, b) == Rat(a.num * b.num, a.den * b.den)
\* a / b for b > 0
RatDiv(a, b) == Rat(a.num * b.den, a.den * b.num)

\* the sequence s itself, held as an explicit tuple (an aid to evaluation)
AsTuple(s) == SubSeq(s, 1, Len(s))

Min(a, b) == IF a < b THEN a ELSE b
Max(a, b) == IF a > b THEN a ELSE b

RECURSIVE SumSeq(_)
SumSeq(s) == IF s = <<>> THEN 0 ELSE Head(s) + SumSeq(Tail(s))

\* np.mean of a non-empty integer sequence
Mean(s) == Rat(SumSeq(s), Len(s))

-----------------------------------------------------------------------------
(* ANTCalculator *)

\* ANTCalculator.__init__: the four checks that raise ValueError
ValidConfig_Lax(c) ==
    /\ c.baseline_reps >= 2
    /\ 0 < c.drop_threshold /\ c.drop_threshold < 100
    /\ c.smoothing_window >= 1
    /\ c.sustain_count >= 1

ValidConfig(c) ==
    /\ ~(c.baseline_reps < 3)
    /\ 0 < c.drop_threshold /\ c.drop_threshold < 100
    /\ ~(c.smoothing_window < 1)
    /\ ~(c.sustain_count < 1)

\* valid_reps = [r for r in reps if r.is_valid]
ValidReps_NoFilter(rs) == rs

ValidReps(rs) == SelectSeq(rs, LAMBDA r : r.is_valid)

\* len(valid_reps) < self.baseline_reps + self.sustain_count
InsufficientData_BaselineOnly(c, n) == n < c.baseline_reps

InsufficientData(c, n) == n < c.baseline_reps + c.sustain_count

\* the result returned when there are too few valid reps
InsufficientResult ==
    [ant_reached |-> FALSE, ant_rep_index |-> None,
     ant_timestamp_seconds |-> None, baseline_speed |-> RatInt(0),
     drop_percent_at_ant |-> None, smoothed_speeds |-> <<>>,
     threshold_flags |-> <<>>]

\* the result returned when baseline_speed <= 0
ZeroBaselineResult_NoFlags(speeds) ==
    [ant_reached |-> FALSE, ant_rep_index |-> None,
     ant_timestamp_seconds |-> None, baseline_speed |-> RatInt(0),
     drop_percent_at_ant |-> None,
     smoothed_speeds |-> [i \in 1..Len(speeds) |-> RatInt(speeds[i])],
     threshold_flags |-> <<>>]

ZeroBaselineResult(speeds) ==
    [ant_reached |-> FALSE, ant_rep_index |-> None,
     ant_timestamp_seconds |-> None, baseline_speed |-> RatInt(0),
     drop_percent_at_ant |-> None,
     smoothed_speeds |-> [i \in 1..Len(speeds) |-> RatInt(speeds[i])],
     threshold_flags |-> [i \in 1..Len(speeds) |-> FALSE]]

\* baseline_speed = float(np.mean(speeds[: self.baseline_reps]))
BaselineSpeed_AllReps(speeds, n) == Mean(speeds)

BaselineSpeed(speeds, n) == Mean(SubSeq(speeds, 1, Min(n, Len(speeds))))

\* ANTCalculator._smooth; i0, start and end are the code's 0-based values
Smooth_ZeroPadded(data, window) ==
    IF window <= 1 \/ Len(data) < window
    THEN [i \in 1..Len(data) |-> RatInt(data[i])]
    ELSE LET half_window == window \div 2
         IN  [i \in 1..Len(data) |->
                LET i0 == i - 1
                    start == Max(0, i0 - half_window)
                    end == Min(Len(data), i0 + half_window + 1)
                IN  Rat(SumSeq(SubSeq(data, start + 1, end)),
                        2 * half_window + 1)]

Smooth(data, window) ==
    IF window <= 1 \/ Len(data) < window
    THEN [i \in 1..Len(data) |-> RatInt(data[i])]
    ELSE LET half_window == window \div 2
         IN  [i \in 1..Len(data) |->
                LET i0 == i - 1
                    start == Max(0, i0 - half_window)
                    end == Min(Len(data), i0 + half_window + 1)
                IN  Mean(SubSeq(data, start + 1, end))]

\* threshold_speed = baseline_speed * (1 - self.drop_threshold)
ThresholdSpeed(c, baseline_speed) ==
    RatMul(baseline_speed, Rat(100 - c.drop_threshold, 100))

\* below_threshold = smoothed_speeds < threshold_speed
BelowThreshold_Leq(smoothed_speeds, threshold_speed) ==
    [i \in 1..Len(smoothed_speeds) |->
        RatLeq(smoothed_speeds[i], threshold_speed)]

BelowThreshold(smoothed_speeds, threshold_speed) ==
    [i \in 1..Len(smoothed_speeds) |->
        RatLess(smoothed_speeds[i], threshold_speed)]

\* the loop of _find_sustained_drop from (1-based) position i on, with
\* consecutive_count = count on entry
RECURSIVE SustainedDropFrom(_, _, _, _)
SustainedDropFrom(below_threshold, sustain_count, i, count) ==
    IF i > Len(below_threshold) THEN None
    ELSE IF below_threshold[i]
         THEN IF count + 1 >= sustain_count
              THEN Some((i - 1) - sustain_count + 1)
              ELSE SustainedDropFrom(below_threshold, sustain_count,
                                     i + 1, count + 1)
         ELSE SustainedDropFrom(below_threshold, sustain_count, i + 1, 0)

RECURSIVE SustainedDropEndFrom(_, _, _, _)
SustainedDropEndFrom(below_threshold, sustain_count, i, count) ==
    IF i > Len(below_threshold) THEN None
    ELSE IF below_threshold[i]
         THEN IF count + 1 >= sustain_count
              THEN Some(i - 1)
              ELSE SustainedDropEndFrom(below_threshold, sustain_count,
                                        i + 1, count + 1)
         ELSE SustainedDropEndFrom(below_threshold, sustain_count, i + 1, 0)

\* ANTCalculator._find_sustained_drop
FindSustainedDrop_RunEnd(below_threshold, sustain_count) ==
    SustainedDropEndFrom(below_threshold, sustain_count, 1, 0)

FindSustainedDrop(below_threshold, sustain_count) ==
    SustainedDropFrom(below_threshold, sustain_count, 1, 0)

\* drop_percent = (baseline_speed - current_speed) / baseline_speed
DropPercent_OfCurrent(baseline_speed, current_speed) ==
    RatDiv(RatSub(baseline_speed, current_speed),
           Rat(Max(current_speed.num, 1), current_speed.den))

DropPercent(baseline_speed, current_speed) ==
    RatDiv(RatSub(baseline_speed, current_speed), baseline_speed)

\* ANTCalculator.calculate
Calculate(c, rs) ==
    LET valid_reps == ValidReps(rs)
    IN  IF InsufficientData(c, Len(valid_reps)) THEN InsufficientResult
        ELSE
        LET speeds == [i \in 1..Len(valid_reps) |-> valid_reps[i].peak_speed]
            baseline_speed == BaselineSpeed(speeds, c.baseline_reps)
        IN  IF baseline_speed.num <= 0 THEN ZeroBaselineResult(speeds)
            ELSE
            LET smoothed_speeds == Smooth(speeds, c.smoothing_window)
                threshold_speed == ThresholdSpeed(c, baseline_speed)
                below_threshold ==
                    BelowThreshold(smoothed_speeds, threshold_speed)
                ant_rep_index ==
                    FindSustainedDrop(below_threshold, c.sustain_count)
                found == ~IsNone(ant_rep_index)
            IN  [ant_reached |-> found,
                 ant_rep_index |-> ant_rep_index,
                 ant_timestamp_seconds |->
                    IF found
                    THEN Some(valid_reps[Get(ant_rep_index) + 1].start_time)
                    ELSE None,
                 baseline_speed |-> baseline_speed,
                 drop_percent_at_ant |->
                    IF found
                    THEN Some(DropPercent(baseline_speed,
                                smoothed_speeds[Get(ant_rep_index) + 1]))
                    ELSE None,
                 smoothed_speeds |-> smoothed_speeds,
                 threshold_flags |-> below_threshold]

-----------------------------------------------------------------------------
(* RepDetector                                                             *)
(*                                                                         *)
(* Units: time in ticks of 0.1 s, y in steps of 0.05 of the image height. *)
(* A PositionSample is [t, y, confidence]; x is never read by the         *)
(* detector and is left out.  confidence is in percent.                   *)

MIN_VERTICAL_DISPLACEMENT_SWING == 3    \* 0.15
MIN_VERTICAL_DISPLACEMENT_SNATCH == 5   \* 0.25
MAX_REP_DURATION == 40                  \* 4.0 s
MIN_REP_DURATION == 4                   \* 0.4 s
VELOCITY_SMOOTHING_WINDOW == 3
MIN_SAMPLES_BETWEEN_PEAKS == 5
DEFAULT_MIN_CONFIDENCE == 50            \* 0.5

RatAdd(a, b) ==
    IF a.den = b.den THEN Rat(a.num + b.num, a.den)
    ELSE Rat(a.num * b.den + b.num * a.den, a.den * b.den)
RatNeg(a) == Rat(-a.num, a.den)
RatAbs(a) == Rat(IF a.num < 0 THEN -a.num ELSE a.num, a.den)

\* sum of the rationals s[a..b]
RECURSIVE RatSum(_, _, _)
RatSum(s, a, b) ==
    IF a > b THEN RatInt(0)
    ELSE IF a = b THEN s[a] ELSE RatAdd(s[a], RatSum(s, a + 1, b))

\* np.max of a non-empty sequence of rationals
RECURSIVE RatMaxSeq(_)
RatMaxSeq(s) ==
    IF Len(s) = 1 THEN s[1]
    ELSE LET m == RatMaxSeq(Tail(s))
         IN  IF RatLess(s[1], m) THEN m ELSE s[1]

\* np.max, np.min of a non-empty sequence of integers
MaxOf(s) == CHOOSE m \in {s[i] : i \in 1..Len(s)} : \A i \in 1..Len(s) : s[i] <= m
MinOf(s) == CHOOSE m \in {s[i] : i \in 1..Len(s)} : \A i \in 1..Len(s) : s[i] >= m

\* np.diff
Diff(s) == AsTuple([i \in 1..(Len(s) - 1) |-> s[i + 1] - s[i]])

\* RepDetector.__init__: the displacement threshold of the movement type
MinVerticalDisplacement(mt) ==
    IF mt \in {"snatch_left", "snatch_right"}
    THEN MIN_VERTICAL_DISPLACEMENT_SNATCH
    ELSE MIN_VERTICAL_DISPLACEMENT_SWING

\* RepDetector._smooth_signal on a sequence of rationals: edge padding of
\* window // 2 on the left and window - 1 - window // 2 on the right, then
\* the mean of every window
SmoothSignal(signal, window) ==
    IF window <= 1 \/ Len(signal) < window THEN signal
    ELSE LET n == Len(signal)
             left == window \div 2
             right == window - 1 - window \div 2
             padded == AsTuple([k \in 1..(n + left + right) |->
                          IF k <= left THEN signal[1]
                          ELSE IF k > left + n THEN signal[n]
                          ELSE signal[k - left]])
         IN  AsTuple([i \in 1..n |->
                LET sum == RatSum(padded, i, i + window - 1)
                IN  Rat(sum.num, sum.den * window)])

\* the loop of _find_peaks, had a closer and higher candidate been added
\* after the last peak instead of taking its place
RECURSIVE FindPeaksFrom_AppendHigher(_, _, _, _)
FindPeaksFrom_AppendHigher(signal, min_distance, i, peaks) ==
    IF i >= Len(signal) - 1 THEN peaks
    ELSE
    LET candidate == /\ RatLess(signal[i], signal[i + 1])
                     /\ RatLess(signal[i + 2], signal[i + 1])
        last == peaks[Len(peaks)]
        next ==
            IF ~candidate THEN peaks
            ELSE IF peaks = <<>> \/ (i - last) >= min_distance
                 THEN Append(peaks, i)
            ELSE IF RatLess(signal[last + 1], signal[i + 1])
                 THEN Append(peaks, i)
            ELSE peaks
    IN  FindPeaksFrom_AppendHigher(signal, min_distance, i + 1, next)

\* the loop of _find_peaks from 0-based index i on, with the peaks found so
\* far (0-based indices)
RECURSIVE FindPeaksFrom(_, _, _, _)
FindPeaksFrom(signal, min_distance, i, peaks) ==
    IF i >= Len(signal) - 1 THEN peaks
    ELSE
    LET candidate == /\ RatLess(signal[i], signal[i + 1])
                     /\ RatLess(signal[i + 2], signal[i + 1])
        last == peaks[Len(peaks)]
        next ==
            IF ~candidate THEN peaks
            ELSE IF peaks = <<>> \/ (i - last) >= min_distance
                 THEN Append(peaks, i)
            ELSE IF RatLess(signal[last + 1], signal[i + 1])
                 THEN [peaks EXCEPT ![Len(peaks)] = i]
            ELSE peaks
    IN  FindPeaksFrom(signal, min_distance, i + 1, next)

\* RepDetector._find_peaks
FindPeaks(signal, min_distance) == FindPeaksFrom(signal, min_distance, 1, <<>>)

\* RepDetector._calculate_peak_speed, in y steps per tick; a non-positive
\* time step counts as 0.001 s, a hundredth of a tick
CalculatePeakSpeed(times, ys) ==
    IF Len(times) < 2 THEN RatInt(0)
    ELSE
    LET dt == Diff(times)
        dy == Diff(ys)
        velocities == AsTuple([i \in 1..Len(dt) |->
                         IF dt[i] > 0 THEN RatAbs(Rat(dy[i], dt[i]))
                         ELSE RatAbs(Rat(dy[i] * 100, 1))])
        smoothed == IF Len(velocities) >= VELOCITY_SMOOTHING_WINDOW
                    THEN SmoothSignal(velocities, VELOCITY_SMOOTHING_WINDOW)
                    ELSE velocities
    IN  IF Len(smoothed) > 0 THEN RatMaxSeq(smoothed) ELSE RatInt(0)

Sign(a) == IF a.num > 0 THEN 1 ELSE IF a.num < 0 THEN -1 ELSE 0

\* _validate_rep without its count of direction changes
ValidateRep_NoArcCheck(mt, duration, vertical_displacement, y_segment) ==
    IF duration < MIN_REP_DURATION \/ duration > MAX_REP_DURATION THEN FALSE
    ELSE IF vertical_displacement < MinVerticalDisplacement(mt) THEN FALSE
    ELSE TRUE

\* RepDetector._validate_rep
ValidateRep(mt, duration, vertical_displacement, y_segment) ==
    IF duration < MIN_REP_DURATION \/ duration > MAX_REP_DURATION THEN FALSE
    ELSE IF vertical_displacement < MinVerticalDisplacement(mt) THEN FALSE
    ELSE IF Len(y_segment) < 5 THEN TRUE
    ELSE
    LET d == Diff(y_segment)
        dy == AsTuple([i \in 1..Len(d) |-> RatInt(d[i])])
        dy_smooth == IF Len(dy) >= 3 THEN SmoothSignal(dy, 3) ELSE dy
        sign_changes ==
            Cardinality({i \in 1..(Len(dy_smooth) - 1) :
                            Sign(dy_smooth[i + 1]) # Sign(dy_smooth[i])})
    IN  ~(sign_changes > Max(8, Len(y_segment) \div 3))

\* _segment_reps, had it skipped every span of fewer than 7 samples
SegmentReps_SkipShort(mt, times, y_raw, peaks, valleys) ==
    LET Rep(i) ==
            LET start_idx == peaks[i]
                end_idx == peaks[i + 1]
                start_time == times[start_idx + 1]
                end_time == times[end_idx + 1]
                duration == end_time - start_time
                y_segment == SubSeq(y_raw, start_idx + 1, end_idx + 1)
                vertical_displacement == MaxOf(y_segment) - MinOf(y_segment)
            IN  [start_idx |-> start_idx, end_idx |-> end_idx,
                 start_time |-> start_time, end_time |-> end_time,
                 duration |-> duration,
                 peak_speed |->
                    CalculatePeakSpeed(
                        SubSeq(times, start_idx + 1, end_idx + 1), y_segment),
                 vertical_displacement |-> vertical_displacement,
                 is_valid |->
                    ValidateRep(mt, duration, vertical_displacement, y_segment)]
        \* a slice y_raw[start_idx : end_idx + 1] of fewer than 2 samples
        Skipped(i) ==
            Min(Len(y_raw), peaks[i + 1] + 1) - Min(Len(y_raw), peaks[i]) < 7
        RECURSIVE Build(_, _)
        Build(i, acc) ==
            IF i > Len(peaks) - 1 THEN acc
            ELSE Build(i + 1, IF Skipped(i) THEN acc ELSE Append(acc, Rep(i)))
    IN  Build(1, <<>>)

\* _segment_reps, had it bounded the reps by the valleys whenever it is
\* given at least two of them
SegmentReps_ByValleys(mt, times, y_raw, peaks, valleys) ==
    LET bounds == IF Len(valleys) >= 2 THEN valleys ELSE peaks IN
    LET Rep(i) ==
            LET start_idx == bounds[i]
                end_idx == bounds[i + 1]
                start_time == times[start_idx + 1]
                end_time == times[end_idx + 1]
                duration == end_time - start_time
                y_segment == SubSeq(y_raw, start_idx + 1, end_idx + 1)
                vertical_displacement == MaxOf(y_segment) - MinOf(y_segment)
            IN  [start_idx |-> start_idx, end_idx |-> end_idx,
                 start_time |-> start_time, end_time |-> end_time,
                 duration |-> duration,
                 peak_speed |->
                    CalculatePeakSpeed(
                        SubSeq(times, start_idx + 1, end_idx + 1), y_segment),
                 vertical_displacement |-> vertical_displacement,
                 is_valid |->
                    ValidateRep(mt, duration, vertical_displacement, y_segment)]
        \* a slice y_raw[start_idx : end_idx + 1] of fewer than 2 samples
        Skipped(i) ==
            Min(Len(y_raw), bounds[i + 1] + 1) - Min(Len(y_raw), bounds[i]) < 2
        RECURSIVE Build(_, _)
        Build(i, acc) ==
            IF i > Len(bounds) - 1 THEN acc
            ELSE Build(i + 1, IF Skipped(i) THEN acc ELSE Append(acc, Rep(i)))
    IN  Build(1, <<>>)

\* RepDetector._segment_reps; valleys are passed and never read
SegmentReps(mt, times, y_raw, peaks, valleys) ==
    LET Rep(i) ==
            LET start_idx == peaks[i]
                end_idx == peaks[i + 1]
                start_time == times[start_idx + 1]
                end_time == times[end_idx + 1]
                duration == end_time - start_time
                y_segment == SubSeq(y_raw, start_idx + 1, end_idx + 1)
                vertical_displacement == MaxOf(y_segment) - MinOf(y_segment)
            IN  [start_idx |-> start_idx, end_idx |-> end_idx,
                 start_time |-> start_time, end_time |-> end_time,
                 duration |-> duration,
                 peak_speed |->
                    CalculatePeakSpeed(
                        SubSeq(times, start_idx + 1, end_idx + 1), y_segment),
                 vertical_displacement |-> vertical_displacement,
                 is_valid |->
                    ValidateRep(mt, duration, vertical_displacement, y_segment)]
        \* a slice y_raw[start_idx : end_idx + 1] of fewer than 2 samples
        Skipped(i) ==
            Min(Len(y_raw), peaks[i + 1] + 1) - Min(Len(y_raw), peaks[i]) < 2
        RECURSIVE Build(_, _)
        Build(i, acc) ==
            IF i > Len(peaks) - 1 THEN acc
            ELSE Build(i + 1, IF Skipped(i) THEN acc ELSE Append(acc, Rep(i)))
    IN  Build(1, <<>>)

\* valid_samples = [s for s in samples if s.confidence >= self.min_confidence]
ValidSamples_All(ss, min_confidence) == ss

ValidSamples(ss, min_confidence) ==
    SelectSeq(ss, LAMBDA s : s.confidence >= min_confidence)

\* RepDetector.detect_reps
DetectReps(mt, min_confidence, ss) ==
    IF Len(ss) < MIN_SAMPLES_BETWEEN_PEAKS * 2 THEN <<>>
    ELSE
    LET valid_samples == ValidSamples(ss, min_confidence)
    IN  IF Len(valid_samples) < MIN_SAMPLES_BETWEEN_PEAKS * 2 THEN <<>>
        ELSE
        LET times == AsTuple([i \in 1..Len(valid_samples) |-> valid_samples[i].t])
            y_positions ==
                AsTuple([i \in 1..Len(valid_samples) |-> valid_samples[i].y])
            y_smooth ==
                SmoothSignal(
                    AsTuple([i \in 1..Len(y_positions) |-> RatInt(y_positions[i])]),
                    VELOCITY_SMOOTHING_WINDOW)
            peaks ==
                FindPeaks(AsTuple([i \in 1..Len(y_smooth) |-> RatNeg(y_smooth[i])]),
                          MIN_SAMPLES_BETWEEN_PEAKS)
            valleys == FindPeaks(y_smooth, MIN_SAMPLES_BETWEEN_PEAKS)
        IN  IF Len(peaks) < 2 /\ Len(valleys) < 2 THEN <<>>
            ELSE SegmentReps(mt, times, y_positions, peaks, valleys)

-----------------------------------------------------------------------------
(* StreamingRepDetector *)

\* y values of the samples fed, in steps of 0.05
YChoices == {0, 3, 5}

\* constructor arguments offered: movement type and buffer length in ticks
\* (10.0 s, the default, holds every stream of the model; 0.9 s holds ten
\* samples one tick apart)
StreamConfigChoices ==
    {[movement_type |-> "snatch_right", buffer_seconds |-> 100],
     [movement_type |-> "two_arm_swing", buffer_seconds |-> 9]}

\* the dedup key of a rep
RepKey(r) == <<r.start_time, r.end_time>>

\* the pruning loop, had it also dropped a sample exactly at the cutoff
RECURSIVE Prune_AtCutoff(_, _)
Prune_AtCutoff(ss, cutoff_time) ==
    IF ss # <<>> /\ ss[1].t <= cutoff_time
    THEN Prune_AtCutoff(Tail(ss), cutoff_time)
    ELSE ss

\* the pruning loop of add_sample: drop leading samples older than the cutoff
RECURSIVE Prune(_, _)
Prune(ss, cutoff_time) ==
    IF ss # <<>> /\ ss[1].t < cutoff_time THEN Prune(Tail(ss), cutoff_time)
    ELSE ss

DetInit ==
    /\ det = "new"
    /\ movement_type = "two_arm_swing"
    /\ buffer_seconds = 100
    /\ samples = <<>>
    /\ detected_reps = <<>>
    /\ last_processed_idx = 0
    /\ new_reps = <<>>
    /\ stream = <<>>

\* StreamingRepDetector.__init__ (min_confidence keeps its default)
DetConstruct(c) ==
    /\ det = "new"
    /\ det' = "ready"
    /\ movement_type' = c.movement_type
    /\ buffer_seconds' = c.buffer_seconds
    /\ samples' = <<>>
    /\ detected_reps' = <<>>
    /\ last_processed_idx' = 0
    /\ UNCHANGED <<new_reps, stream>>
    /\ UNCHANGED <<antVars, callVars>>

\* add_sample, had it logged every rep of the buffer on every call
AddSample_NoDedup(sample) ==
    /\ det = "ready"
    /\ LET appended == Append(samples, sample)
           cutoff_time == appended[Len(appended)].t - buffer_seconds
           kept == Prune(appended, cutoff_time)
           popped == Len(appended) - Len(kept)
           all_reps == DetectReps(movement_type, DEFAULT_MIN_CONFIDENCE, kept)
           existing_times == {RepKey(detected_reps[i]) :
                                i \in 1..Len(detected_reps)}
           fresh == all_reps
       IN  /\ samples' = kept
           /\ last_processed_idx' = Max(0, last_processed_idx - popped)
           /\ detected_reps' = detected_reps \o fresh
           /\ new_reps' = fresh
    /\ stream' = Append(stream, sample)
    /\ UNCHANGED <<det, movement_type, buffer_seconds>>
    /\ UNCHANGED <<antVars, callVars>>

\* StreamingRepDetector.add_sample
AddSample(sample) ==
    /\ det = "ready"
    /\ LET appended == Append(samples, sample)
           cutoff_time == appended[Len(appended)].t - buffer_seconds
           kept == Prune(appended, cutoff_time)
           popped == Len(appended) - Len(kept)
           all_reps == DetectReps(movement_type, DEFAULT_MIN_CONFIDENCE, kept)
           existing_times == {RepKey(detected_reps[i]) :
                                i \in 1..Len(detected_reps)}
           fresh == SelectSeq(all_reps,
                              LAMBDA r : RepKey(r) \notin existing_times)
       IN  /\ samples' = kept
           /\ last_processed_idx' = Max(0, last_processed_idx - popped)
           /\ detected_reps' = detected_reps \o fresh
           /\ new_reps' = fresh
    /\ stream' = Append(stream, sample)
    /\ UNCHANGED <<det, movement_type, buffer_seconds>>
    /\ UNCHANGED <<antVars, callVars>>

\* StreamingRepDetector.reset (new_reps, the record of the last add_sample
\* result, is cleared with it)
DetReset ==
    /\ det = "ready"
    /\ samples' = <<>>
    /\ detected_reps' = <<>>
    /\ last_processed_idx' = 0
    /\ stream' = <<>>
    /\ new_reps' = <<>>
    /\ UNCHANGED <<det, movement_type, buffer_seconds>>
    /\ UNCHANGED <<antVars, callVars>>

\* the next sample of a stream sampled once per tick, confidence 1.0; the
\* stream ends after MaxSamples samples
NextSamples ==
    IF Len(stream) < MaxSamples
    THEN {[t |-> Len(stream) + 1, y |-> y, confidence |-> 100] : y \in YChoices}
    ELSE {}

\* the next sample of a stream whose clock is stalled: every sample carries
\* the same timestamp (timestamps are non-decreasing, not increasing)
StalledSamples ==
    IF Len(stream) < MaxStalled
    THEN {[t |-> 1, y |-> y, confidence |-> 100] : y \in {0, 5}}
    ELSE {}

\* the next sample of a stream with an irregular clock: the timestamp
\* repeats, advances by one tick or jumps by three, and the confidence is
\* below or above the minimum
GappedSamples ==
    IF Len(stream) < MaxGapped
    THEN {[t |-> (IF stream = <<>> THEN 0 ELSE stream[Len(stream)].t) + gap,
           y |-> 0, confidence |-> c] : gap \in {0, 1, 3}, c \in {40, 100}}
    ELSE {}

\* short buffers: 0.2 s and no history at all
ShortBufferChoices ==
    {[movement_type |-> "swing_left", buffer_seconds |-> 2],
     [movement_type |-> "swing_left", buffer_seconds |-> 0]}

NextStream ==
    \/ \E c \in StreamConfigChoices : DetConstruct(c)
    \/ \E sample \in NextSamples : AddSample(sample)
    \/ DetReset

NextStalled ==
    \/ \E c \in StreamConfigChoices : DetConstruct(c)
    \/ \E sample \in StalledSamples : AddSample(sample)
    \/ DetReset

NextBuffer ==
    \/ \E c \in ShortBufferChoices : DetConstruct(c)
    \/ \E sample \in GappedSamples : AddSample(sample)
    \/ DetReset

-----------------------------------------------------------------------------
(* Inputs *)

\* the constructor's default arguments
DefaultConfig ==
    [baseline_reps |-> 5, drop_threshold |-> 20,
     smoothing_window |-> 3, sustain_count |-> 2]

\* configurations offered to the constructor, valid and invalid
ConfigChoices ==
    [baseline_reps : {2, 3}, drop_threshold : {0, 20, 50, 100},
     smoothing_window : {0, 1, 2, 3, 5}, sustain_count : {0, 1, 2}]
    \cup {DefaultConfig}

\* The calculator reads is_valid, peak_speed and start_time of a rep.  Peak
\* speeds are never negative (RepDetector._calculate_peak_speed takes the
\* maximum of absolute values).
PeakSpeeds == {0, 1, 2}

RepShapes ==
    {[is_valid |-> TRUE, peak_speed |-> s] : s \in PeakSpeeds}
    \cup {[is_valid |-> FALSE, peak_speed |-> 0]}

\* A rep that arrives as the k-th of the log starts at time k: the detector
\* reports reps in increasing time order.
MkRep(shape, k) ==
    [is_valid |-> shape.is_valid, peak_speed |-> shape.peak_speed,
     start_time |-> k]

\* sequences handed to add_reps: the empty one and every pair
BatchChoices == {<<>>} \cup {<<a, b>> : a, b \in RepShapes}

-----------------------------------------------------------------------------
(* RepDetector, called on a whole sample list *)

MovementTypes ==
    {"snatch_left", "snatch_right", "swing_left", "swing_right",
     "two_arm_swing"}

\* A sample list is described by its shape (which samples are low, 0, and
\* which are high, 1), the height of the high samples in y steps, the time
\* gaps between consecutive samples and the confidences; gaps and
\* confidences repeat periodically.
Amplitudes == {2, 3, 5}

\* gaps in ticks: a steady clock, a stopped clock, a slow clock, and clocks
\* that repeat a timestamp every fifth or every third sample
SteadyClock == <<1>>
TimeProfiles == {<<0>>, <<8>>, <<1, 1, 1, 1, 0>>, <<1, 1, 0>>}

\* confidences in percent
AllConfident == <<100>>
ConfidenceProfiles ==
    {<<50>>, <<40>>, <<100, 40>>, <<100, 100, 100, 100, 100, 40>>,
     <<100, 100, 40, 100, 100, 100, 100>>}

Shapes(n) == [1..n -> {0, 1}]

\* the time of the i-th sample; the first sample is at time 0
RECURSIVE TimeAt(_, _)
TimeAt(gaps, i) ==
    IF i <= 1 THEN 0
    ELSE TimeAt(gaps, i - 1) + gaps[((i - 2) % Len(gaps)) + 1]

MkSamples(shape, amplitude, gaps, confidences) ==
    AsTuple([i \in 1..Len(shape) |->
        [t |-> TimeAt(gaps, i), y |-> shape[i] * amplitude,
         confidence |-> confidences[((i - 1) % Len(confidences)) + 1]]])

\* a RepDetector(mt, min_confidence) about to be called on ss
PendingCall(mt, min_confidence, ss) ==
    /\ rd_config = [movement_type |-> mt, min_confidence |-> min_confidence]
    /\ rd_samples = ss
    /\ rd_returned = None

\* every short shape at every amplitude, for a snatch and a swing
AmplitudeCalls ==
    \E mt \in {"snatch_right", "two_arm_swing"}, a \in Amplitudes,
       n \in 9..(MaxBatchSamples - 4) :
        \E shape \in Shapes(n) :
            PendingCall(mt, DEFAULT_MIN_CONFIDENCE,
                        MkSamples(shape, a, SteadyClock, AllConfident))

\* the longest lists, long enough for three peaks
LongCalls ==
    \E n \in (MaxBatchSamples - 3)..MaxBatchSamples :
        \E shape \in Shapes(n) :
            PendingCall("snatch_left", DEFAULT_MIN_CONFIDENCE,
                        MkSamples(shape, 5, SteadyClock, AllConfident))

\* irregular clocks
ClockCalls ==
    \E gaps \in TimeProfiles, n \in 10..(MaxBatchSamples - 4) :
        \E shape \in Shapes(n) :
            PendingCall("swing_left", DEFAULT_MIN_CONFIDENCE,
                        MkSamples(shape, 5, gaps, AllConfident))

\* samples of mixed confidence, under the default and a stricter minimum
ConfidenceCalls ==
    \/ \E confidences \in ConfidenceProfiles, n \in 10..(MaxBatchSamples - 3) :
            \E shape \in Shapes(n) :
                PendingCall("two_arm_swing", DEFAULT_MIN_CONFIDENCE,
                            MkSamples(shape, 5, SteadyClock, confidences))
    \/ \E shape \in Shapes(MaxBatchSamples - 4) :
            PendingCall("two_arm_swing", 100,
                        MkSamples(shape, 5, SteadyClock,
                                  <<100, 100, 100, 100, 100, 50>>))

\* three heights instead of two, so that peaks differ in height: every
\* shape of the shortest list detect_reps works on
Depths == {0, 1, 2}
DepthCalls ==
    \E shape \in [1..(MIN_SAMPLES_BETWEEN_PEAKS * 2) -> Depths] :
        PendingCall("swing_right", DEFAULT_MIN_CONFIDENCE,
                    MkSamples(shape, 3, SteadyClock, AllConfident))

DetectCalls ==
    AmplitudeCalls \/ LongCalls \/ ClockCalls \/ ConfidenceCalls
        \/ DepthCalls

\* no detector call is pending
CallInit ==
    /\ rd_config = [movement_type |-> "two_arm_swing",
                    min_confidence |-> DEFAULT_MIN_CONFIDENCE]
    /\ rd_samples = <<>>
    /\ rd_returned = None

\* the pending call: RepDetector.__init__ followed by
\* RepDetector.detect_reps, which assigns to no attribute of the instance
\* and builds new lists from its argument
DetectRepsCall ==
    /\ rd_returned = None
    /\ rd_returned' =
            Some(DetectReps(rd_config.movement_type, rd_config.min_confidence,
                            rd_samples))
    /\ UNCHANGED <<rd_config, rd_samples>>
    /\ UNCHANGED <<antVars, detVars, poseVars, vpVars>>

NextDetect == DetectRepsCall

-----------------------------------------------------------------------------
(* PoseEstimator and VideoProcessor                                        *)
(*                                                                         *)
(* x and y of a wrist are in steps of 0.05 and visibilities in percent,    *)
(* as for the detector.  The video has NativeFps frames per second, one    *)
(* per tick, so the timestamp frame_idx / native_fps is frame_idx ticks.   *)
(* The landmarks of a frame are None when MediaPipe finds no pose.         *)

MIN_VISIBILITY == 50        \* 0.5
TARGET_FPS == 15
BASELINE_REPS == 5
DROP_THRESHOLD == 20        \* 0.20
SMOOTHING_WINDOW == 3
SUSTAIN_COUNT == 2
MIN_VIDEO_SECONDS == 5

\* cap.get(cv2.CAP_PROP_FPS)
NativeFps == 10

\* PoseEstimator.process_frame, given what MediaPipe found in the frame
ProcessFrame(timestamp, found) ==
    IF IsNone(found)
    THEN [timestamp |-> timestamp, left_wrist |-> None, right_wrist |-> None,
          left_wrist_confidence |-> 0, right_wrist_confidence |-> 0,
          frame_valid |-> FALSE]
    ELSE
    LET left_wrist_lm == Get(found).left
        right_wrist_lm == Get(found).right
        left_valid == left_wrist_lm.visibility >= MIN_VISIBILITY
        right_valid == right_wrist_lm.visibility >= MIN_VISIBILITY
    IN  [timestamp |-> timestamp,
         left_wrist |-> IF left_valid
                        THEN Some(<<left_wrist_lm.x, left_wrist_lm.y>>)
                        ELSE None,
         right_wrist |-> IF right_valid
                         THEN Some(<<right_wrist_lm.x, right_wrist_lm.y>>)
                         ELSE None,
         left_wrist_confidence |-> left_wrist_lm.visibility,
         right_wrist_confidence |-> right_wrist_lm.visibility,
         frame_valid |-> left_valid \/ right_valid]

\* the wrist flags _extract_positions derives from the movement type
UseLeft(mt) == mt \in {"snatch_left", "swing_left"}
UseRight(mt) == mt \in {"snatch_right", "swing_right"}
UseBoth(mt) == mt = "two_arm_swing"

\* _pose_to_sample, had a single-limb movement fallen back to the other
\* wrist when the configured one is missing
PoseToSample_AnyWrist(p, use_left, use_right, use_both) ==
    LET left == Get(p.left_wrist)
        right == Get(p.right_wrist)
        LeftSample ==
            Some([t |-> p.timestamp, x |-> left[1], y |-> left[2],
                  confidence |-> p.left_wrist_confidence])
        RightSample ==
            Some([t |-> p.timestamp, x |-> right[1], y |-> right[2],
                  confidence |-> p.right_wrist_confidence])
    IN  IF ~p.frame_valid THEN None
        ELSE IF use_both
        THEN IF ~IsNone(p.left_wrist) /\ ~IsNone(p.right_wrist)
             THEN Some([t |-> p.timestamp,
                        x |-> (left[1] + right[1]) \div 2,
                        y |-> (left[2] + right[2]) \div 2,
                        confidence |->
                            (p.left_wrist_confidence
                                + p.right_wrist_confidence) \div 2])
             ELSE IF ~IsNone(p.left_wrist) THEN LeftSample
             ELSE IF ~IsNone(p.right_wrist) THEN RightSample
             ELSE None
        ELSE IF use_left /\ ~IsNone(p.left_wrist) THEN LeftSample
        ELSE IF use_right /\ ~IsNone(p.right_wrist) THEN RightSample
        ELSE IF ~IsNone(p.left_wrist) THEN LeftSample
        ELSE RightSample

\* VideoProcessor._pose_to_sample: None or a PositionSample.  The halves
\* are exact: the coordinates and visibilities offered are even.
PoseToSample(p, use_left, use_right, use_both) ==
    LET left == Get(p.left_wrist)
        right == Get(p.right_wrist)
        LeftSample ==
            Some([t |-> p.timestamp, x |-> left[1], y |-> left[2],
                  confidence |-> p.left_wrist_confidence])
        RightSample ==
            Some([t |-> p.timestamp, x |-> right[1], y |-> right[2],
                  confidence |-> p.right_wrist_confidence])
    IN  IF ~p.frame_valid THEN None
        ELSE IF use_both
        THEN IF ~IsNone(p.left_wrist) /\ ~IsNone(p.right_wrist)
             THEN Some([t |-> p.timestamp,
                        x |-> (left[1] + right[1]) \div 2,
                        y |-> (left[2] + right[2]) \div 2,
                        confidence |->
                            (p.left_wrist_confidence
                                + p.right_wrist_confidence) \div 2])
             ELSE IF ~IsNone(p.left_wrist) THEN LeftSample
             ELSE IF ~IsNone(p.right_wrist) THEN RightSample
             ELSE None
        ELSE IF use_left /\ ~IsNone(p.left_wrist) THEN LeftSample
        ELSE IF use_right /\ ~IsNone(p.right_wrist) THEN RightSample
        ELSE None

\* PoseEstimator.process_video keeps every frame_skip-th frame
FrameSkip ==
    IF TARGET_FPS < NativeFps THEN NativeFps \div TARGET_FPS ELSE 1

\* the loop of _extract_positions over the frames from 0-based index
\* frame_idx on, with the samples collected so far
RECURSIVE ExtractFrom(_, _, _, _)
ExtractFrom(frames, frame_idx, mt, acc) ==
    IF frame_idx >= Len(frames) THEN acc
    ELSE IF frame_idx % FrameSkip # 0
    THEN ExtractFrom(frames, frame_idx + 1, mt, acc)
    ELSE
    LET sample == PoseToSample(ProcessFrame(frame_idx, frames[frame_idx + 1]),
                               UseLeft(mt), UseRight(mt), UseBoth(mt))
    IN  ExtractFrom(frames, frame_idx + 1, mt,
                    IF IsNone(sample) THEN acc ELSE Append(acc, Get(sample)))

\* VideoProcessor._extract_positions
ExtractPositions(frames, mt) == ExtractFrom(frames, 0, mt, <<>>)

\* _build_rep_metrics, had it paired rep i with the flag of rep i + 1
BuildRepMetrics_ShiftedFlags(valid_reps, ant_result) ==
    LET threshold_flags == ant_result.threshold_flags
    IN  [k \in 1..Len(valid_reps) |->
            LET i == k - 1
                rep == valid_reps[k]
                is_below == IF i + 1 < Len(threshold_flags)
                            THEN threshold_flags[i + 2] ELSE FALSE
            IN  [rep_index |-> i, start_time |-> rep.start_time,
                 end_time |-> rep.end_time, duration |-> rep.duration,
                 peak_speed |-> rep.peak_speed, is_valid |-> TRUE,
                 is_below_threshold |-> is_below]]

\* VideoProcessor._build_rep_metrics
BuildRepMetrics(valid_reps, ant_result) ==
    LET threshold_flags == ant_result.threshold_flags
    IN  [k \in 1..Len(valid_reps) |->
            LET i == k - 1
                rep == valid_reps[k]
                is_below == IF i < Len(threshold_flags)
                            THEN threshold_flags[i + 1] ELSE FALSE
            IN  [rep_index |-> i, start_time |-> rep.start_time,
                 end_time |-> rep.end_time, duration |-> rep.duration,
                 peak_speed |-> rep.peak_speed, is_valid |-> TRUE,
                 is_below_threshold |-> is_below]]

\* peak_speed is one float in the source.  The detector above holds it as
\* a fraction and the calculator above as a whole number; between the two
\* it is counted in SpeedScale-ths of a y step per tick, which is exact for
\* samples one tick apart (differences of whole steps, averaged over 3).
SpeedScale == 3
InSpeedUnits(rep) ==
    [rep EXCEPT !.peak_speed =
        (rep.peak_speed.num * SpeedScale) \div rep.peak_speed.den]

\* VideoProcessor.analyze, steps 1 to 3: the samples, the detected reps and
\* the result of the calculator
Pipeline(mt, frames) ==
    LET video_samples == ExtractPositions(frames, mt)
        video_reps == DetectReps(mt, DEFAULT_MIN_CONFIDENCE, video_samples)
        calculator == [baseline_reps |-> BASELINE_REPS,
                       drop_threshold |-> DROP_THRESHOLD,
                       smoothing_window |-> SMOOTHING_WINDOW,
                       sustain_count |-> SUSTAIN_COUNT]
        scaled == AsTuple([i \in 1..Len(video_reps) |->
                              InSpeedUnits(video_reps[i])])
    IN  [samples |-> video_samples, detected_reps |-> video_reps,
         ant_result |-> Calculate(calculator, scaled)]

\* VideoProcessor.analyze, building the final result from them
BuildResult(mt, locals) ==
    LET ant_result == locals.ant_result
        valid_reps == SelectSeq(locals.detected_reps, LAMBDA r : r.is_valid)
        invalid_count == Len(locals.detected_reps) - Len(valid_reps)
    IN  [raised |-> FALSE,
         movement_type |-> mt,
         total_valid_reps |-> Len(valid_reps),
         baseline_speed |->
            Rat(ant_result.baseline_speed.num,
                ant_result.baseline_speed.den * SpeedScale),
         ant_reached |-> ant_result.ant_reached,
         ant_rep_index |-> ant_result.ant_rep_index,
         ant_timestamp_seconds |-> ant_result.ant_timestamp_seconds,
         drop_percent_at_ant |-> ant_result.drop_percent_at_ant,
         rep_metrics |-> BuildRepMetrics(valid_reps, ant_result),
         diagnostics |->
            [fps_used |-> TARGET_FPS,
             frames_sampled |-> Len(locals.samples),
             invalid_reps_filtered |-> invalid_count,
             baseline_reps_used |-> Min(BASELINE_REPS, Len(valid_reps))]]

\* the video is shorter than five seconds
TooShort(frames) == Len(frames) < MIN_VIDEO_SECONDS * NativeFps

\* The videos analysed show an athlete who performs up to MaxCycles motion
\* cycles of five frames (wrist high, three frames low, high again) and then
\* stands still; MediaPipe may lose the pose for some frames after the last
\* cycle.  The height of a cycle decides what the detector makes of it: a
\* fast rep, a slow rep or a rep of too little displacement.
CycleAmplitudes == {3, 5}
ShallowAmplitude == 2

CycleFrames(a) == <<a, 0, 0, 0, a>>

RECURSIVE Cycles(_)
Cycles(amps) ==
    IF amps = <<>> THEN <<>> ELSE CycleFrames(Head(amps)) \o Cycles(Tail(amps))

\* what MediaPipe finds in a frame that shows the tracked wrist at height y:
\* both wrists at that height for a two-arm swing, otherwise the tracked
\* wrist there and the other wrist at rest
Landmarks(mt, y) ==
    IF UseBoth(mt)
    THEN Some([left |-> [x |-> 4, y |-> y, visibility |-> 100],
               right |-> [x |-> 8, y |-> y, visibility |-> 60]])
    ELSE IF UseLeft(mt)
    THEN Some([left |-> [x |-> 4, y |-> y, visibility |-> 100],
               right |-> [x |-> 8, y |-> 8, visibility |-> 100]])
    ELSE Some([left |-> [x |-> 4, y |-> 8, visibility |-> 100],
               right |-> [x |-> 8, y |-> y, visibility |-> 100]])

\* a video of frame_count frames: the cycles, lost frames, then rest
MkVideo(mt, amps, lost, frame_count) ==
    LET ys == Cycles(amps)
    IN  AsTuple([i \in 1..frame_count |->
            IF i <= Len(ys) THEN Landmarks(mt, ys[i])
            ELSE IF i <= Len(ys) + lost THEN None
            ELSE Landmarks(mt, 0)])

\* analyze(video_path, mt) is about to be called on the video
PendingVideo(mt, frames) ==
    /\ vp_movement = mt
    /\ vp_frames = frames
    /\ vp_locals = None
    /\ vp_result = None

\* five-second videos of a one-arm swing with every sequence of slow and
\* fast cycles, and with two shallow cycles in a row among them (the rep
\* between their low points has too little displacement)
CycleVideos ==
    \E k \in 0..MaxCycles :
        \E amps \in [1..k -> CycleAmplitudes] :
            \/ PendingVideo("swing_left",
                            MkVideo("swing_left", amps, 0,
                                    MIN_VIDEO_SECONDS * NativeFps))
            \/ \E shallow \in 1..(k - 1) :
                    PendingVideo("swing_left",
                                 MkVideo("swing_left",
                                         [amps EXCEPT
                                            ![shallow] = ShallowAmplitude,
                                            ![shallow + 1] = ShallowAmplitude],
                                         0, MIN_VIDEO_SECONDS * NativeFps))

\* every movement type on short sequences of cycles, with lost frames, in
\* videos just under, of and over five seconds
OtherVideos ==
    \E mt \in MovementTypes, k \in 2..3, lost \in {0, 2},
       frame_count \in {MIN_VIDEO_SECONDS * NativeFps - 1,
                        MIN_VIDEO_SECONDS * NativeFps,
                        MIN_VIDEO_SECONDS * NativeFps + 2} :
        \E amps \in [1..k -> CycleAmplitudes \cup {ShallowAmplitude}] :
            PendingVideo(mt, MkVideo(mt, amps, lost, frame_count))

Videos == CycleVideos \/ OtherVideos

\* no pose and no video is being processed
PoseInit ==
    /\ pose = ProcessFrame(0, None)
    /\ pose_movement = "two_arm_swing"
    /\ pose_called = FALSE
    /\ pose_sample = None

VpInit ==
    /\ vp_movement = "two_arm_swing"
    /\ vp_frames = <<>>
    /\ vp_locals = None
    /\ vp_result = None

\* what MediaPipe may report for the two wrists of a frame: positions in
\* the image, the origin included, and visibilities on both sides of
\* MIN_VISIBILITY
LeftLandmarks ==
    [x : {0, 4}, y : {0, 2, 6}, visibility : {20, 40, 60, 100}]
RightLandmarks ==
    [x : {8}, y : {0, 4}, visibility : {20, 40, 60, 100}]

\* _pose_to_sample is about to be called on the pose process_frame built
\* for a frame, with the flags of the movement type
PendingPose(mt, p) ==
    /\ pose_movement = mt
    /\ pose = p
    /\ pose_called = FALSE
    /\ pose_sample = None

\* the poses process_video yields: any of the first frames, with no pose
\* found or with the two wrist landmarks
Poses ==
    \E mt \in MovementTypes, timestamp \in 0..MaxTimestamp :
        \/ PendingPose(mt, ProcessFrame(timestamp, None))
        \/ \E l \in LeftLandmarks, r \in RightLandmarks :
                PendingPose(mt, ProcessFrame(timestamp,
                                             Some([left |-> l, right |-> r])))

\* the pending call, one iteration of the loop of _extract_positions:
\* _pose_to_sample on the pose of the frame
PoseToSampleCall ==
    /\ ~pose_called
    /\ pose_sample' = PoseToSample(pose, UseLeft(pose_movement),
                                   UseRight(pose_movement),
                                   UseBoth(pose_movement))
    /\ pose_called' = TRUE
    /\ UNCHANGED <<pose, pose_movement>>
    /\ UNCHANGED <<antVars, detVars, rdVars, vpVars>>

NextPose == PoseToSampleCall

\* the pending call: VideoProcessor.analyze, after the file has been found
\* and opened; a video that is too short raises ValueError
AnalyzeCall ==
    /\ vp_result = None
    /\ IF TooShort(vp_frames)
       THEN /\ vp_result' = Some([raised |-> TRUE, error |-> "ValueError"])
            /\ vp_locals' = None
       ELSE LET locals == Pipeline(vp_movement, vp_frames)
            IN  /\ vp_locals' = Some(locals)
                /\ vp_result' = Some(BuildResult(vp_movement, locals))
    /\ UNCHANGED <<vp_movement, vp_frames>>
    /\ UNCHANGED <<antVars, detVars, rdVars, poseVars>>

NextAnalyze == AnalyzeCall

-----------------------------------------------------------------------------
(* StreamingANTCalculator *)

Init ==
    /\ status = "new"
    /\ cfg = DefaultConfig
    /\ reps = <<>>
    /\ last_result = None
    /\ ret = None
    /\ DetInit
    /\ CallInit
    /\ PoseInit
    /\ VpInit

\* StreamingANTCalculator.__init__, which builds an ANTCalculator
Construct(c) ==
    /\ status = "new"
    /\ cfg' = c
    /\ status' = IF ValidConfig(c) THEN "ready" ELSE "config_error"
    /\ UNCHANGED <<reps, last_result, ret>>
    /\ UNCHANGED <<detVars, callVars>>

\* StreamingANTCalculator.add_rep
AddRep(rep) ==
    /\ status = "ready"
    /\ Len(reps) < MaxReps
    /\ reps' = Append(reps, rep)
    /\ last_result' = Some(Calculate(cfg, reps'))
    /\ ret' = last_result'
    /\ UNCHANGED <<status, cfg>>
    /\ UNCHANGED <<detVars, callVars>>

\* add_reps, had it calculated over the new reps instead of the whole log
AddReps_NewOnly(shapes) ==
    /\ status = "ready"
    /\ Len(reps) + Len(shapes) <= MaxReps
    /\ reps' = reps \o [i \in 1..Len(shapes) |-> MkRep(shapes[i], Len(reps) + i)]
    /\ last_result' =
        Some(Calculate(cfg, [i \in 1..Len(shapes) |->
                                MkRep(shapes[i], Len(reps) + i)]))
    /\ ret' = last_result'
    /\ UNCHANGED <<status, cfg>>
    /\ UNCHANGED <<detVars, callVars>>

\* StreamingANTCalculator.add_reps
AddReps(shapes) ==
    /\ status = "ready"
    /\ Len(reps) + Len(shapes) <= MaxReps
    /\ reps' = reps \o [i \in 1..Len(shapes) |-> MkRep(shapes[i], Len(reps) + i)]
    /\ last_result' = Some(Calculate(cfg, reps'))
    /\ ret' = last_result'
    /\ UNCHANGED <<status, cfg>>
    /\ UNCHANGED <<detVars, callVars>>

\* StreamingANTCalculator.reset
Reset ==
    /\ status = "ready"
    /\ reps' = <<>>
    /\ last_result' = None
    /\ ret' = None
    /\ UNCHANGED <<status, cfg>>
    /\ UNCHANGED <<detVars, callVars>>

\* StreamingANTCalculator.get_current_result
GetCurrentResult ==
    /\ status = "ready"
    /\ ret' = last_result
    /\ UNCHANGED <<status, cfg, reps, last_result>>
    /\ UNCHANGED <<detVars, callVars>>

Next ==
    \/ \E c \in ConfigChoices : Construct(c)
    \/ \E shape \in RepShapes : AddRep(MkRep(shape, Len(reps) + 1))
    \/ \E shapes \in BatchChoices : AddReps(shapes)
    \/ Reset
    \/ GetCurrentResult

Spec == Init /\ [][Next]_vars

SpecStream == Init /\ [][NextStream]_vars

SpecStalled == Init /\ [][NextStalled]_vars

SpecBuffer == Init /\ [][NextBuffer]_vars

\* a RepDetector built for one call of detect_reps on one sample list
InitDetect ==
    /\ status = "new"
    /\ cfg = DefaultConfig
    /\ reps = <<>>
    /\ last_result = None
    /\ ret = None
    /\ DetInit
    /\ DetectCalls
    /\ PoseInit
    /\ VpInit

SpecDetect == InitDetect /\ [][NextDetect]_vars

\* a VideoProcessor about to analyse one video
InitAnalyze ==
    /\ status = "new"
    /\ cfg = DefaultConfig
    /\ reps = <<>>
    /\ last_result = None
    /\ ret = None
    /\ DetInit
    /\ CallInit
    /\ PoseInit
    /\ Videos

SpecAnalyze == InitAnalyze /\ [][NextAnalyze]_vars

\* _extract_positions about to convert one pose
InitPose ==
    /\ status = "new"
    /\ cfg = DefaultConfig
    /\ reps = <<>>
    /\ last_result = None
    /\ ret = None
    /\ DetInit
    /\ CallInit
    /\ Poses
    /\ VpInit

SpecPose == InitPose /\ [][NextPose]_vars

-----------------------------------------------------------------------------
(* Vocabulary of the properties, written without the operators above *)

\* the is_valid reps of a log, in order
RECURSIVE OnlyValid(_)
OnlyValid(rs) ==
    IF rs = <<>> THEN <<>>
    ELSE IF rs[1].is_valid THEN <<rs[1]>> \o OnlyValid(Tail(rs))
    ELSE OnlyValid(Tail(rs))

\* the peak speeds of the valid reps of a log
SpeedsOf(rs) == LET v == OnlyValid(rs) IN [i \in 1..Len(v) |-> v[i].peak_speed]

NumValid == Cardinality({i \in 1..Len(reps) : reps[i].is_valid})

\* sum of s[a..b], 1-based and inclusive
RECURSIVE SumRange(_, _, _)
SumRange(s, a, b) == IF a > b THEN 0 ELSE s[a] + SumRange(s, a + 1, b)

\* a calculate call has returned; Result is what it returned
Calculated == status = "ready" /\ last_result # <<>>
Result == last_result[1]

\* calculate had enough valid reps
EnoughReps == NumValid >= cfg.baseline_reps + cfg.sustain_count
\* the sum of the first baseline_reps valid peak speeds
BaselineSum == SumRange(SpeedsOf(reps), 1, cfg.baseline_reps)
\* enough valid reps and a positive baseline
FullComputation == Calculated /\ EnoughReps /\ BaselineSum > 0

\* flags[k+1 .. k+n] (0-based k) are all TRUE
RunAt(flags, k, n) ==
    /\ k >= 0
    /\ k + n <= Len(flags)
    /\ \A j \in 1..n : flags[k + j]

HasRun(flags, n) == \E k \in 0..Len(flags) : RunAt(flags, k, n)

-----------------------------------------------------------------------------
(* C1: streaming/batch equivalence.  When no sample has been evicted from  *)
(* the buffer, the cumulative log of the streaming detector holds exactly  *)
(* the (start_time, end_time) keys that one detect_reps call over the      *)
(* whole stream returns.                                                   *)
KeysOf(rs) == {<<rs[i].start_time, rs[i].end_time>> : i \in 1..Len(rs)}

C1_StreamingEqualsBatch ==
    (det = "ready" /\ samples = stream) =>
        KeysOf(detected_reps)
            = KeysOf(DetectReps(movement_type, DEFAULT_MIN_CONFIDENCE, stream))

-----------------------------------------------------------------------------
(* C2: with a positive baseline and at least baseline_reps + sustain_count   *)
(* valid reps, ant_reached holds exactly when threshold_flags has            *)
(* sustain_count consecutive TRUE values; ant_rep_index is then the start of *)
(* the first such run, and otherwise index, timestamp and drop percent are   *)
(* all unset.                                                                *)
C2_FirstSustainedRun ==
    FullComputation =>
        /\ Result.ant_reached <=> HasRun(Result.threshold_flags, cfg.sustain_count)
        /\ Result.ant_reached =>
            /\ Result.ant_rep_index # <<>>
            /\ RunAt(Result.threshold_flags, Result.ant_rep_index[1],
                     cfg.sustain_count)
            /\ \A k \in 0..(Result.ant_rep_index[1] - 1) :
                    ~RunAt(Result.threshold_flags, k, cfg.sustain_count)
        /\ ~Result.ant_reached =>
            /\ Result.ant_rep_index = <<>>
            /\ Result.ant_timestamp_seconds = <<>>
            /\ Result.drop_percent_at_ant = <<>>

\* a run of two found after an isolated flag that is not part of it
C2_Witness ==
    /\ FullComputation
    /\ cfg.sustain_count = 2
    /\ Result.ant_reached
    /\ \E j \in 1..Result.ant_rep_index[1] :
            /\ Result.threshold_flags[j]
            /\ ~Result.threshold_flags[j + 1]

(* C3: with fewer than baseline_reps + sustain_count valid reps, whatever    *)
(* the number of invalid ones, calculate returns the insufficient-data       *)
(* result: ant_reached false, baseline_speed 0, both arrays empty, the       *)
(* optional fields unset.                                                    *)
C3_InsufficientData ==
    (Calculated /\ ~EnoughReps) =>
        /\ Result.ant_reached = FALSE
        /\ Result.baseline_speed.num = 0
        /\ Result.smoothed_speeds = <<>>
        /\ Result.threshold_flags = <<>>
        /\ Result.ant_rep_index = <<>>
        /\ Result.ant_timestamp_seconds = <<>>
        /\ Result.drop_percent_at_ant = <<>>

\* the default configuration (5 baseline reps, sustain 2) with 6 valid reps
C3_Witness ==
    /\ Calculated
    /\ cfg.baseline_reps = 5 /\ cfg.sustain_count = 2
    /\ NumValid = 6
    /\ Len(reps) = 6
    /\ Result.threshold_flags = <<>>

\* one valid rep short of enough, with an invalid rep in the log as well
C3_WitnessInvalid ==
    /\ Calculated
    /\ NumValid = cfg.baseline_reps + cfg.sustain_count - 1
    /\ Len(reps) > NumValid
    /\ Result.smoothed_speeds = <<>>

(* C4: construction succeeds exactly when baseline_reps >= 3,                *)
(* 0 < drop_threshold < 1, smoothing_window >= 1 and sustain_count >= 1;     *)
(* otherwise it fails at construction, and no rep is ever added or result    *)
(* computed under an invalid configuration.                                  *)
C4_ConfigValidatedAtConstruction ==
    LET ok == /\ cfg.baseline_reps >= 3
              /\ cfg.drop_threshold > 0 /\ cfg.drop_threshold < 100
              /\ cfg.smoothing_window >= 1
              /\ cfg.sustain_count >= 1
    IN  /\ status = "ready" => ok
        /\ status = "config_error" => ~ok
        /\ (reps # <<>> \/ last_result # <<>> \/ ret # <<>>)
                => (status = "ready" /\ ok)

\* a constructor call rejected for baseline_reps = 2 alone
C4_Witness ==
    /\ status = "config_error"
    /\ cfg.baseline_reps = 2
    /\ cfg.drop_threshold = 50
    /\ cfg.smoothing_window = 3
    /\ cfg.sustain_count = 2

(* C5: smoothed_speeds and threshold_flags always have the same length: the  *)
(* number of valid reps when there are at least baseline_reps +              *)
(* sustain_count of them (also when the baseline is not positive, where      *)
(* smoothed_speeds is the raw sequence and every flag is FALSE), and zero    *)
(* otherwise.                                                                *)
C5_ArrayLengths ==
    Calculated =>
        /\ Len(Result.smoothed_speeds) = Len(Result.threshold_flags)
        /\ EnoughReps =>
            /\ Len(Result.smoothed_speeds) = NumValid
            /\ BaselineSum <= 0 =>
                LET speeds == SpeedsOf(reps)
                IN  \A i \in 1..NumValid :
                        /\ Result.smoothed_speeds[i].num
                             = speeds[i] * Result.smoothed_speeds[i].den
                        /\ Result.threshold_flags[i] = FALSE
        /\ ~EnoughReps => Len(Result.smoothed_speeds) = 0

\* the non-positive-baseline outcome, with a non-zero speed after the baseline
C5_Witness ==
    /\ Calculated
    /\ EnoughReps
    /\ BaselineSum = 0
    /\ \E i \in 1..NumValid : SpeedsOf(reps)[i] > 0
    /\ Len(Result.threshold_flags) = NumValid

(* C6: in every full computation over n valid reps and for every window      *)
(* w >= 1, also when n < w, smoothed_speeds[i] is the mean of the peak       *)
(* speeds at (0-based) indices max(0, i - w div 2) .. min(n-1, i + w div 2). *)
C6_TrimmedCenteredMean ==
    FullComputation =>
        LET speeds == SpeedsOf(reps)
            n == Len(speeds)
            half == cfg.smoothing_window \div 2
        IN  \A i \in 1..n :
                LET lo == IF i - half < 1 THEN 1 ELSE i - half
                    hi == IF i + half > n THEN n ELSE i + half
                IN  Result.smoothed_speeds[i].num * (hi - lo + 1)
                      = SumRange(speeds, lo, hi) * Result.smoothed_speeds[i].den

C10_OnlyValidRepsCount ==
    Calculated =>
        /\ Result = Calculate(cfg, OnlyValid(reps))
        /\ Result.ant_reached =>
            /\ Result.ant_rep_index[1] + 1 \in 1..NumValid
            /\ Result.ant_timestamp_seconds
                 = <<OnlyValid(reps)[Result.ant_rep_index[1] + 1].start_time>>

\* the threshold reached with an invalid rep earlier in the log, so that the
\* index into the valid reps differs from the position in the input
C10_Witness ==
    /\ Calculated
    /\ Result.ant_reached
    /\ \E i \in 1..Len(reps) :
        /\ ~reps[i].is_valid
        /\ i < Result.ant_timestamp_seconds[1]
    /\ Result.ant_timestamp_seconds[1] # Result.ant_rep_index[1] + 1

-----------------------------------------------------------------------------
(* Vocabulary of the properties of detect_reps *)

Called == rd_returned # <<>>
Returned == rd_returned[1]

\* the samples of ss whose confidence reaches the minimum mc, in order
RECURSIVE Confident(_, _)
Confident(ss, mc) ==
    IF ss = <<>> THEN <<>>
    ELSE IF Head(ss).confidence >= mc
         THEN <<Head(ss)>> \o Confident(Tail(ss), mc)
         ELSE Confident(Tail(ss), mc)

\* the samples the detector of the pending call works on
Kept == Confident(rd_samples, rd_config.min_confidence)

-----------------------------------------------------------------------------
\* C11: detect_reps returns on a sample list exactly what it returns on the
\* list without the samples of confidence below min_confidence; every index
\* of a returned rep is an index into that filtered list; and the result is
\* empty whenever fewer than 10 samples reach min_confidence.
C11_ConfidenceFilter ==
    Called =>
        LET kept == Kept
        IN  /\ Returned = DetectReps(rd_config.movement_type,
                                     rd_config.min_confidence, kept)
            /\ Len(kept) < 10 => Returned = <<>>
            /\ \A i \in 1..Len(Returned) :
                    /\ Returned[i].start_idx >= 0
                    /\ Returned[i].end_idx < Len(kept)
                    /\ kept[Returned[i].start_idx + 1].t = Returned[i].start_time
                    /\ kept[Returned[i].end_idx + 1].t = Returned[i].end_time

\* a rep is returned from a list in which a low-confidence sample precedes
\* the end of the rep, so that the indices of the two lists differ
C11_Witness ==
    /\ Called
    /\ Returned # <<>>
    /\ \E j \in 1..Len(rd_samples) :
            /\ rd_samples[j].confidence < rd_config.min_confidence
            /\ j <= Returned[1].end_idx + 1

\* the peaks detect_reps accepts on the pending call, when it gets that far
AcceptedPeaks ==
    LET y_smooth ==
            SmoothSignal(AsTuple([i \in 1..Len(Kept) |-> RatInt(Kept[i].y)]),
                         VELOCITY_SMOOTHING_WINDOW)
    IN  FindPeaks(AsTuple([i \in 1..Len(y_smooth) |-> RatNeg(y_smooth[i])]),
                  MIN_SAMPLES_BETWEEN_PEAKS)

-----------------------------------------------------------------------------
-----------------------------------------------------------------------------
\* the timestamps of ss never decrease
NonDecreasing(ss) == \A i \in 1..(Len(ss) - 1) : ss[i].t <= ss[i + 1].t

\* C13: every rep detect_reps returns on samples with non-decreasing
\* timestamps has start_idx < end_idx, start_time < end_time and
\* duration = end_time - start_time.
C13_RepInvariant ==
    (Called /\ NonDecreasing(rd_samples)) =>
        \A i \in 1..Len(Returned) :
            /\ Returned[i].start_idx < Returned[i].end_idx
            /\ Returned[i].start_time < Returned[i].end_time
            /\ Returned[i].duration =
                    Returned[i].end_time - Returned[i].start_time

-----------------------------------------------------------------------------
\* the raw y values of the span of rep r of the pending call
SpanOf(r) ==
    [k \in 1..(r.end_idx - r.start_idx + 1) |-> Kept[r.start_idx + k].y]

\* the sign changes along the first difference of ys, each difference
\* summed with its two neighbours (the nearest one taken twice at the ends)
SignChanges(ys) ==
    LET m == Len(ys) - 1
        d(i) == ys[i + 1] - ys[i]
        s3(i) == d(IF i = 1 THEN 1 ELSE i - 1) + d(i)
                    + d(IF i = m THEN m ELSE i + 1)
        sgn(x) == IF x > 0 THEN 1 ELSE IF x < 0 THEN -1 ELSE 0
    IN  Cardinality({i \in 1..(m - 1) : sgn(s3(i)) # sgn(s3(i + 1))})

\* the three criteria of a valid rep, in ticks and y steps
DurationOk(r) == r.duration >= 4 /\ r.duration <= 40
DisplacementOk(r) ==
    r.vertical_displacement >=
        (IF rd_config.movement_type \in {"snatch_left", "snatch_right"}
         THEN 5 ELSE 3)
ArcOk(r) ==
    LET n == r.end_idx - r.start_idx + 1
    IN  n < 5 \/ SignChanges(SpanOf(r)) <= (IF n \div 3 > 8 THEN n \div 3 ELSE 8)

\* C14: a returned rep is valid exactly when its duration lies in
\* [0.4 s, 4.0 s], its vertical displacement reaches the minimum of the
\* movement type (0.25 for snatches, 0.15 for swings) and its span has fewer
\* than 5 samples or at most max(8, span length // 3) sign changes in the
\* smoothed first difference of its raw y values.
C14_Validity ==
    Called =>
        \A i \in 1..Len(Returned) :
            Returned[i].is_valid <=>
                (DurationOk(Returned[i]) /\ DisplacementOk(Returned[i])
                    /\ ArcOk(Returned[i]))

\* a returned rep of acceptable duration and displacement that is invalid
\* because its span changes direction too often
C14_Witness ==
    /\ Called
    /\ \E i \in 1..Len(Returned) :
            /\ DurationOk(Returned[i])
            /\ DisplacementOk(Returned[i])
            /\ ~Returned[i].is_valid

-----------------------------------------------------------------------------
\* the step is an add_sample call
IsAddSample == Len(stream') = Len(stream) + 1

-----------------------------------------------------------------------------
\* s is an initial part of t
IsPrefix(s, t) == Len(s) <= Len(t) /\ SubSeq(t, 1, Len(s)) = s

\* C16: every add_rep and add_reps call appends to the log and returns
\* calculate over the whole log, the reps added since construction or the
\* last reset in arrival order (the k-th rep added is the k-th of the log),
\* so that a batch ends in the same log and result as its reps added one by
\* one; get_current_result returns the cached result, which is none before
\* the first add and after every reset.
C16_StreamingWrapper ==
    /\ [](status = "ready" =>
            /\ \A k \in 1..Len(reps) : reps[k].start_time = k
            /\ last_result = None \/ last_result = Some(Calculate(cfg, reps))
            /\ reps # <<>> => last_result # None)
    /\ [][status = "ready" =>
            /\ reps' # reps =>
                    \/ reps' = <<>> /\ last_result' = None
                    \/ /\ IsPrefix(reps, reps')
                       /\ last_result' = Some(Calculate(cfg, reps'))
                       /\ ret' = last_result'
            /\ last_result' # last_result =>
                    \/ reps' = <<>> /\ last_result' = None
                    \/ /\ IsPrefix(reps, reps')
                       /\ last_result' = Some(Calculate(cfg, reps'))
                       /\ ret' = last_result'
            /\ (reps' = reps /\ last_result' = last_result) =>
                    ret' = last_result
       ]_vars
    /\ [][status = "new" /\ status' = "ready" =>
            reps' = <<>> /\ last_result' = None]_vars

\* a log of at least four reps whose last add returned a result with the
\* threshold reached
C16_Witness ==
    /\ Calculated
    /\ Len(reps) >= 4
    /\ ret = last_result
    /\ Result.ant_reached

-----------------------------------------------------------------------------
(* Vocabulary of the properties of analyze *)

Analysed == vp_result # <<>> /\ ~vp_result[1].raised
Analysis == vp_result[1]

\* what analyze held when it built the result
Detected == vp_locals[1].detected_reps
Flags == vp_locals[1].ant_result.threshold_flags

-----------------------------------------------------------------------------
\* C17: the result of analyze holds one metric per valid detected rep, in
\* detection order, with rep_index 0..n-1 and n = total_valid_reps; metric
\* i is below threshold exactly when threshold_flags has an entry i and it
\* is True; invalid_reps_filtered + total_valid_reps is the number of
\* detected reps and baseline_reps_used is min(BASELINE_REPS, n).
C17_RepMetrics ==
    Analysed =>
        LET detected == Detected
            valid == OnlyValid(detected)
            flags == Flags
            metrics == Analysis.rep_metrics
            n == Analysis.total_valid_reps
        IN  /\ n = Len(valid)
            /\ Len(metrics) = n
            /\ \A i \in 1..Len(metrics) :
                    /\ metrics[i].rep_index = i - 1
                    /\ metrics[i].is_valid
                    /\ metrics[i].start_time = valid[i].start_time
                    /\ metrics[i].end_time = valid[i].end_time
                    /\ metrics[i].duration = valid[i].duration
                    /\ metrics[i].peak_speed = valid[i].peak_speed
                    /\ metrics[i].is_below_threshold =
                            (i <= Len(flags) /\ flags[i])
            /\ Analysis.diagnostics.invalid_reps_filtered + n = Len(detected)
            /\ Analysis.diagnostics.baseline_reps_used =
                    (IF n < BASELINE_REPS THEN n ELSE BASELINE_REPS)

\* an analysis that filtered an invalid rep and reports metrics below and
\* not below the threshold
C17_Witness ==
    /\ Analysed
    /\ Analysis.diagnostics.invalid_reps_filtered > 0
    /\ \E i \in 1..Len(Analysis.rep_metrics) :
            Analysis.rep_metrics[i].is_below_threshold
    /\ \E i \in 1..Len(Analysis.rep_metrics) :
            ~Analysis.rep_metrics[i].is_below_threshold

-----------------------------------------------------------------------------
\* C18: in the pipeline of analyze, threshold_flags is never shorter than
\* the sequence of valid reps, whatever the number of valid reps.
C18_FlagsCoverValidReps ==
    Analysed => Len(Flags) >= Len(OnlyValid(Detected))

-----------------------------------------------------------------------------
(* Vocabulary of the properties of _pose_to_sample *)

Converted == pose_called
Emitted == pose_sample # <<>>
Sample == pose_sample[1]
LeftPresent == pose.left_wrist # <<>>
RightPresent == pose.right_wrist # <<>>

\* the sample that carries one wrist's point and confidence
LeftPoint ==
    [t |-> pose.timestamp, x |-> pose.left_wrist[1][1],
     y |-> pose.left_wrist[1][2], confidence |-> pose.left_wrist_confidence]
RightPoint ==
    [t |-> pose.timestamp, x |-> pose.right_wrist[1][1],
     y |-> pose.right_wrist[1][2], confidence |-> pose.right_wrist_confidence]

\* C19: for a single-limb movement a sample is emitted exactly when the
\* configured wrist's point is present, and carries that point and
\* confidence; two_arm_swing emits the coordinate-wise average with the
\* averaged confidence when both points are present, the one present point
\* when exactly one is, and nothing when neither is; every emitted sample's
\* t is the timestamp of the pose.
C19_SamplePolicy ==
    Converted =>
        /\ pose_movement \in {"snatch_left", "swing_left"} =>
                /\ Emitted <=> LeftPresent
                /\ Emitted => Sample = LeftPoint
        /\ pose_movement \in {"snatch_right", "swing_right"} =>
                /\ Emitted <=> RightPresent
                /\ Emitted => Sample = RightPoint
        /\ pose_movement = "two_arm_swing" =>
                /\ Emitted <=> (LeftPresent \/ RightPresent)
                /\ (LeftPresent /\ RightPresent) =>
                        /\ 2 * Sample.x = LeftPoint.x + RightPoint.x
                        /\ 2 * Sample.y = LeftPoint.y + RightPoint.y
                        /\ 2 * Sample.confidence =
                                LeftPoint.confidence + RightPoint.confidence
                /\ (LeftPresent /\ ~RightPresent) => Sample = LeftPoint
                /\ (RightPresent /\ ~LeftPresent) => Sample = RightPoint
        /\ Emitted => Sample.t = pose.timestamp

\* a two-arm swing whose wrists differ in height and visibility, averaged
\* on a frame after the first
C19_Witness ==
    /\ Converted
    /\ pose_movement = "two_arm_swing"
    /\ LeftPresent /\ RightPresent
    /\ LeftPoint.y # RightPoint.y
    /\ LeftPoint.confidence # RightPoint.confidence
    /\ pose.timestamp > 0
    /\ Emitted

-----------------------------------------------------------------------------
\* the signal _find_peaks scans for the peaks of the pending call
Scanned ==
    LET y_smooth ==
            SmoothSignal(AsTuple([i \in 1..Len(Kept) |-> RatInt(Kept[i].y)]),
                         VELOCITY_SMOOTHING_WINDOW)
    IN  AsTuple([i \in 1..Len(y_smooth) |-> RatNeg(y_smooth[i])])

\* a < b for two values of a signal
Below(a, b) == a.num * b.den < b.num * a.den

\* 0-based index i is interior to sig and a strict local maximum of it
StrictMaximum(sig, i) ==
    /\ i >= 1
    /\ i <= Len(sig) - 2
    /\ Below(sig[i], sig[i + 1])
    /\ Below(sig[i + 2], sig[i + 1])

\* C21: the accepted peaks are strictly increasing interior indices, each a
\* strict local maximum of the scanned signal, and consecutive ones are at
\* least 5 samples apart; the returned reps run from each peak to the
\* next, so every rep spans at least 5 samples and none has a span of
\* fewer than 2 or fewer than 5 samples.
C21_PeakSpacing ==
    (Called /\ Len(Kept) >= 10) =>
        LET peaks == AcceptedPeaks
            sig == Scanned
        IN  /\ \A k \in 1..Len(peaks) : StrictMaximum(sig, peaks[k])
            /\ \A k \in 1..(Len(peaks) - 1) : peaks[k + 1] - peaks[k] >= 5
            /\ \A i \in 1..Len(Returned) :
                    /\ Returned[i].start_idx = peaks[i]
                    /\ Returned[i].end_idx = peaks[i + 1]
                    /\ Returned[i].end_idx - Returned[i].start_idx >= 5

\* a call that returns a rep and whose scan met a candidate that was
\* accepted and then gave way to a closer, strictly higher one
C21_Witness ==
    /\ Called
    /\ Len(Kept) >= 10
    /\ Returned # <<>>
    /\ \E k \in 1..Len(AcceptedPeaks), i \in 1..(Len(Kept) - 2) :
            /\ StrictMaximum(Scanned, i)
            /\ i < AcceptedPeaks[k]
            /\ AcceptedPeaks[k] - i < 5
            /\ Below(Scanned[i + 1], Scanned[AcceptedPeaks[k] + 1])
            /\ k > 1 => i - AcceptedPeaks[k - 1] >= 5

-----------------------------------------------------------------------------
\* the valleys detect_reps finds on the pending call
FoundValleys ==
    FindPeaks(AsTuple([i \in 1..Len(Scanned) |->
                          [num |-> 0 - Scanned[i].num, den |-> Scanned[i].den]]),
              MIN_SAMPLES_BETWEEN_PEAKS)

\* valley lists a call could be given in place of the ones it finds
OtherValleys == {<<>>, <<1, 6>>, <<2, 8>>, <<0, 3, 9>>}

\* C22: a call that finds fewer than 2 peaks returns no rep, whatever the
\* number of valleys; a call that finds at least 2 peaks returns the reps
\* its peaks give with any list of valleys.
C22_ValleysIgnored ==
    (Called /\ Len(Kept) >= 10) =>
        LET peaks == AcceptedPeaks
            times == [i \in 1..Len(Kept) |-> Kept[i].t]
            ys == [i \in 1..Len(Kept) |-> Kept[i].y]
        IN  /\ Len(peaks) < 2 => Returned = <<>>
            /\ Len(peaks) >= 2 =>
                    \A valleys \in OtherValleys \cup {FoundValleys} :
                        Returned = SegmentReps(rd_config.movement_type, times,
                                               ys, peaks, valleys)

\* a call that found at least 2 valleys and fewer than 2 peaks
C22_Witness ==
    /\ Called
    /\ Len(Kept) >= 10
    /\ Len(FoundValleys) >= 2
    /\ Len(AcceptedPeaks) < 2
    /\ Returned = <<>>

-----------------------------------------------------------------------------
\* the samples of ss that are not older than the cutoff, in order
RECURSIVE NotOlder(_, _)
NotOlder(ss, cutoff) ==
    IF ss = <<>> THEN <<>>
    ELSE IF Head(ss).t >= cutoff
         THEN <<Head(ss)>> \o NotOlder(Tail(ss), cutoff)
         ELSE NotOlder(Tail(ss), cutoff)

\* the time of the newest sample added since the last reset
LatestTime == stream[Len(stream)].t

\* C23: after every add_sample call the buffer holds exactly the samples
\* added since the last reset whose t >= latest_t - buffer_seconds, in
\* arrival order: the newest sample is retained, a sample at the cutoff is
\* retained, confidence plays no part, and nothing older remains.
C23_BufferWindow ==
    (det = "ready" /\ stream # <<>> /\ NonDecreasing(stream)
        /\ buffer_seconds >= 0) =>
        /\ samples = NotOlder(stream, LatestTime - buffer_seconds)
        /\ samples # <<>>
        /\ samples[Len(samples)] = stream[Len(stream)]
        /\ \A i \in 1..Len(samples) :
                samples[i].t >= LatestTime - buffer_seconds

\* a buffer that has lost samples, begins with a sample exactly at the
\* cutoff and holds a sample of low confidence
C23_Witness ==
    /\ det = "ready"
    /\ stream # <<>>
    /\ buffer_seconds > 0
    /\ Len(samples) < Len(stream)
    /\ samples[1].t = LatestTime - buffer_seconds
    /\ \E i \in 1..Len(samples) : samples[i].confidence < DEFAULT_MIN_CONFIDENCE

-----------------------------------------------------------------------------
\* the step leaves a result cached after one that reached the threshold:
\* an add_rep or add_reps call (or a get_current_result call, which changes
\* nothing) with no reset in between
AfterReached ==
    /\ status = "ready"
    /\ last_result # <<>>
    /\ last_result[1].ant_reached
    /\ last_result' # <<>>

\* the step keeps the threshold where it was
SameThreshold ==
    /\ last_result'[1].ant_reached
    /\ last_result'[1].ant_rep_index = last_result[1].ant_rep_index
    /\ last_result'[1].ant_timestamp_seconds
            = last_result[1].ant_timestamp_seconds

\* C24: once an add_rep or add_reps call has returned ant_reached with
\* ant_rep_index k, every later add before a reset returns ant_reached with
\* the same index and the same timestamp, for every valid configuration.
C24_AntStable ==
    [][AfterReached => SameThreshold]_vars

\* C24, amended: the threshold stays where it was when the speeds are not
\* smoothed (smoothing_window = 1); a centered window makes the smoothed
\* speed of the last reps depend on the reps added after them.
C24_AntStableUnsmoothed ==
    [][(AfterReached /\ cfg.smoothing_window <= 1) => SameThreshold]_vars

\* an unsmoothed log whose threshold was already reached before its last
\* rep was added
C24_Witness ==
    /\ Calculated
    /\ cfg.smoothing_window <= 1
    /\ Result.ant_reached
    /\ Len(reps) >= 2
    /\ Calculate(cfg, SubSeq(reps, 1, Len(reps) - 1)).ant_reached
    /\ reps[Len(reps)].is_valid
    /\ reps[Len(reps)].peak_speed = 2

-----------------------------------------------------------------------------
\* C25: whenever calculate returns ant_reached, baseline_reps <=
\* ant_rep_index <= (number of valid reps) - sustain_count: the threshold
\* is never reported at a rep of the baseline and the sustained run lies
\* inside the valid reps.
C25_AntIndexRange ==
    (Calculated /\ Result.ant_reached) =>
        /\ cfg.baseline_reps <= Result.ant_rep_index[1]
        /\ Result.ant_rep_index[1] <= NumValid - cfg.sustain_count

\* C25, amended: the sustained run lies inside the valid reps, 0 <=
\* ant_rep_index <= (number of valid reps) - sustain_count; it may begin
\* at a rep of the baseline, whose flags are scanned like all others.
C25_AntIndexInLog ==
    (Calculated /\ Result.ant_reached) =>
        /\ 0 <= Result.ant_rep_index[1]
        /\ Result.ant_rep_index[1] <= NumValid - cfg.sustain_count

\* a sustained run of two reps that ends with the last valid rep of a log
\* which also holds an invalid rep
C25_Witness ==
    /\ Calculated
    /\ Result.ant_reached
    /\ cfg.sustain_count = 2
    /\ Result.ant_rep_index[1] = NumValid - cfg.sustain_count
    /\ NumValid < Len(reps)

-----------------------------------------------------------------------------
\* the time intervals of reps a and b share at most an endpoint
Apart(a, b) == a.end_time <= b.start_time \/ b.end_time <= a.start_time

\* C26: the cumulative log of a stream with non-decreasing timestamps
\* never holds two different reps whose time intervals overlap in more
\* than a shared endpoint.
C26_NoOverlapInLog ==
    (det = "ready" /\ NonDecreasing(stream)) =>
        \A i, j \in 1..Len(detected_reps) :
            i < j => Apart(detected_reps[i], detected_reps[j])

=============================================================================
